---------------------------- MODULE Spec2Model ----------------------------
(***************************************************************************)
(* A model of ashby-job-scout: the seen-state differ (storage.py), the     *)
(* notification chunker (notify/telegram.py), the matcher (matcher.py),    *)
(* the posting locator and normalizer (connectors/ashby.py) and the        *)
(* command processor (process_telegram_commands.py).                       *)
(*                                                                         *)
(* Text is a sequence of one-character strings, so that slicing, joining,  *)
(* stripping, lower-casing, substring search and ordering are computed     *)
(* rather than assumed.                                                    *)
(***************************************************************************)
EXTENDS Integers, Sequences, FiniteSets, TLC

VARIABLES
    \* storage.py: one company's seen-state across differ cycles
    seen_file,          \* the company's list in the persisted seen-state file
    seen_identifiers,   \* the list loaded for this cycle (second argument)
    d_jobs,             \* this cycle's batch (first argument)
    d_new_jobs,         \* new_jobs returned by split_new_jobs
    d_updated,          \* the sorted list returned by split_new_jobs
    d_reported,         \* identifier -> number of cycles that reported it new
    d_pc,               \* "idle", "loaded" (inputs in memory), "split" (diffed)
    \* notify/telegram.py: one call of _chunk_text
    c_text, c_limit, c_chunks, c_pc,
    \* connectors/ashby.py: one call of _normalize_job
    n_board_url, n_posting, n_job, n_pc,
    \* connectors/ashby.py: one call of _find_job_postings
    l_payload, l_found, l_pc,
    \* connectors/ashby.py: one call of fetch_jobs
    f_page, f_postings, f_result, f_pc,
    \* matcher.py: one call of filter_jobs
    m_jobs, m_config, m_matched, m_pc,
    \* process_telegram_commands.py: runs of main()
    t_offset_file,      \* telegram_offset.json: None (no file) or the offset
    t_companies,        \* companies.csv: the rows (company, ashby_url)
    t_offset,           \* offset, as loaded by this run
    t_next_offset,      \* next_offset
    t_updates,          \* the batch get_updates returned
    t_i,                \* position of the for loop in the batch
    t_sent,             \* replies sent by this run
    t_error,            \* the exception that ended the run
    t_companies_at_start, \* companies.csv when this run started
    t_pc                \* "idle", "loop", "done", "raised"

differVars == <<seen_file, seen_identifiers, d_jobs, d_new_jobs, d_updated, d_reported, d_pc>>
chunkVars == <<c_text, c_limit, c_chunks, c_pc>>
normVars == <<n_board_url, n_posting, n_job, n_pc>>
locVars == <<l_payload, l_found, l_pc>>
fetchVars == <<f_page, f_postings, f_result, f_pc>>
matchVars == <<m_jobs, m_config, m_matched, m_pc>>
tgVars == <<t_offset_file, t_companies, t_offset, t_next_offset, t_updates, t_i, t_sent,
            t_error, t_companies_at_start, t_pc>>
vars == <<differVars, chunkVars, normVars, locVars, fetchVars, matchVars, tgVars>>

nonDifferVars == <<chunkVars, normVars, locVars, fetchVars, matchVars, tgVars>>
nonChunkVars == <<differVars, normVars, locVars, fetchVars, matchVars, tgVars>>
nonNormVars == <<differVars, chunkVars, locVars, fetchVars, matchVars, tgVars>>
nonLocVars == <<differVars, chunkVars, normVars, fetchVars, matchVars, tgVars>>
nonFetchVars == <<differVars, chunkVars, normVars, locVars, matchVars, tgVars>>
nonMatchVars == <<differVars, chunkVars, normVars, locVars, fetchVars, tgVars>>
nonTgVars == <<differVars, chunkVars, normVars, locVars, fetchVars, matchVars>>

---------------------------------------------------------------------------
(* Text helpers (Python str operations used by the sources).               *)

Range(s) == {s[i] : i \in 1..Len(s)}

\* The characters the model uses, in code-point order.
Alphabet ==
    <<"\n", "\r", " ", ",", "-", ".", "/", "0", "1", "2", "3", "4", "5", "6",
      "7", "8", "9", ":", "A", "B", "C", "D", "E", "F", "G", "H", "I",
      "J", "K", "L", "M", "N", "O", "P", "Q", "R", "S", "T", "U", "V",
      "W", "X", "Y", "Z", "a", "b", "c", "d", "e", "f", "g", "h", "i",
      "j", "k", "l", "m", "n", "o", "p", "q", "r", "s", "t", "u", "v",
      "w", "x", "y", "z", "|">>

\* Position of a character in code-point order (order-preserving stand-in for ord).
OrdTable == [c \in Range(Alphabet) |-> CHOOSE i \in 1..Len(Alphabet) : Alphabet[i] = c]
Ord(c) == OrdTable[c]

\* a < b for Python str: lexicographic by code point, a proper prefix first.
RECURSIVE StrLess(_, _)
StrLess(a, b) ==
    IF b = <<>> THEN FALSE
    ELSE IF a = <<>> THEN TRUE
    ELSE IF Head(a) # Head(b) THEN Ord(Head(a)) < Ord(Head(b))
    ELSE StrLess(Tail(a), Tail(b))

\* "".join(parts)
RECURSIVE Join(_)
Join(parts) == IF parts = <<>> THEN <<>> ELSE Head(parts) \o Join(Tail(parts))

---------------------------------------------------------------------------
(* storage.py                                                              *)

MaxBatch == 3

Id1 == <<"1">>
Id2 == <<"2">>
Id3 == <<"3">>
Id10 == <<"1", "0">>
UrlA == <<"/", "j", "o", "b", "s", "/", "a">>
UrlB == <<"/", "j", "o", "b", "s", "/", "b">>

\* Job dicts as job_to_dict produces them: job_id is never empty
\* (_normalize_job rejects an empty identifier).  Two jobs share the id "3".
JobDicts ==
    { [job_id |-> Id1, url |-> UrlA], [job_id |-> Id2, url |-> UrlA],
      [job_id |-> Id3, url |-> UrlA], [job_id |-> Id3, url |-> UrlB],
      [job_id |-> Id10, url |-> UrlB] }

Batches == UNION {[1..n -> JobDicts] : n \in 0..MaxBatch}

\* identifier = job.get("job_id") or job.get("url", "")
Identifier(job) == IF job.job_id # <<>> THEN job.job_id ELSE job.url

\* Mutant: the identifier is added to the working set only when the job is not new.
SplitStepNoAdd(st, job) ==
    LET identifier == Identifier(job)
        isNew == identifier # <<>> /\ identifier \notin st.seen_set
    IN  [new_jobs |-> IF isNew THEN Append(st.new_jobs, job) ELSE st.new_jobs,
         seen_set |-> st.seen_set]

\* One iteration of the for loop of split_new_jobs.
SplitStep(st, job) ==
    LET identifier == Identifier(job)
        isNew == identifier # <<>> /\ identifier \notin st.seen_set
    IN  [new_jobs |-> IF isNew THEN Append(st.new_jobs, job) ELSE st.new_jobs,
         seen_set |-> IF identifier # <<>>
                      THEN st.seen_set \cup {identifier} ELSE st.seen_set]

RECURSIVE SplitLoop(_, _, _)
SplitLoop(jobs, i, st) ==
    IF i > Len(jobs) THEN st ELSE SplitLoop(jobs, i + 1, SplitStep(st, jobs[i]))

\* sorted(set of str)
RECURSIVE Sorted(_)
Sorted(S) ==
    IF S = {} THEN <<>>
    ELSE LET m == CHOOSE x \in S : \A y \in S \ {x} : StrLess(x, y)
         IN  <<m>> \o Sorted(S \ {m})

\* Mutant: the returned list holds only the identifiers of this batch.
SplitNewJobsForgets(jobs, seen) ==
    LET st == SplitLoop(jobs, 1, [new_jobs |-> <<>>, seen_set |-> Range(seen)])
    IN  [new_jobs |-> st.new_jobs,
         updated |-> Sorted({Identifier(jobs[i]) : i \in 1..Len(jobs)})]

\* split_new_jobs(jobs, seen_identifiers) -> (new_jobs, sorted(seen_set))
split_new_jobs(jobs, seen) ==
    LET st == SplitLoop(jobs, 1, [new_jobs |-> <<>>, seen_set |-> Range(seen)])
    IN  [new_jobs |-> st.new_jobs, updated |-> Sorted(st.seen_set)]

AllIds == {j.job_id : j \in JobDicts}

\* load_seen: every item of the company's list, as a string (the items the
\* program writes are strings already, so str(item) leaves them unchanged).
load_seen(file) == [i \in 1..Len(file) |-> file[i]]

DifferInit ==
    /\ seen_file = <<>>
    /\ seen_identifiers = <<>>
    /\ d_jobs = <<>>
    /\ d_new_jobs = <<>>
    /\ d_updated = <<>>
    /\ d_reported = [id \in AllIds |-> 0]
    /\ d_pc = "idle"

\* Start of a cycle: the seen-state is loaded and a batch of jobs arrives.
LoadSeen ==
    /\ d_pc = "idle"
    /\ seen_identifiers' = load_seen(seen_file)
    /\ d_jobs' \in Batches
    /\ d_pc' = "loaded"
    /\ UNCHANGED <<seen_file, d_new_jobs, d_updated, d_reported>>
    /\ UNCHANGED nonDifferVars

\* The call of split_new_jobs.
SplitNewJobs ==
    /\ d_pc = "loaded"
    /\ LET r == split_new_jobs(d_jobs, seen_identifiers)
       IN  /\ d_new_jobs' = r.new_jobs
           /\ d_updated' = r.updated
    /\ d_reported' = [id \in AllIds |->
            d_reported[id] +
            (IF \E i \in 1..Len(d_new_jobs') : Identifier(d_new_jobs'[i]) = id
             THEN 1 ELSE 0)]
    /\ d_pc' = "split"
    /\ UNCHANGED <<seen_file, seen_identifiers, d_jobs>>
    /\ UNCHANGED nonDifferVars

\* End of a cycle: save_seen persists the returned list; the process ends.
SaveSeen ==
    /\ d_pc = "split"
    /\ seen_file' = d_updated
    /\ seen_identifiers' = <<>>
    /\ d_jobs' = <<>>
    /\ d_new_jobs' = <<>>
    /\ d_updated' = <<>>
    /\ d_pc' = "idle"
    /\ UNCHANGED d_reported
    /\ UNCHANGED nonDifferVars

DifferNext == LoadSeen \/ SplitNewJobs \/ SaveSeen

\* The identifiers of a list of job dicts, in order.
Ids(jobs) == [i \in 1..Len(jobs) |-> Identifier(jobs[i])]

\* Positions of the batch whose identifier is in neither the loaded list nor an
\* earlier position of the batch.
FirstSightings ==
    {i \in 1..Len(d_jobs) :
        /\ Ids(d_jobs)[i] \notin Range(seen_identifiers)
        /\ \A j \in 1..(i - 1) : Ids(d_jobs)[j] # Ids(d_jobs)[i]}

\* The k-th smallest element of a set of positions.
Nth(P, k) == CHOOSE p \in P : Cardinality({q \in P : q < p}) = k - 1

\* C1: split_new_jobs reports exactly the jobs whose identifier is not in the
\* working seen-set when they are examined (the loaded list plus the identifiers
\* of the earlier jobs of the batch), in input order; so new_jobs holds no
\* identifier twice and none of the loaded list.
C1_NewIffUnseenWhenExamined ==
    d_pc = "split" =>
        /\ Len(d_new_jobs) = Cardinality(FirstSightings)
        /\ \A k \in 1..Len(d_new_jobs) : d_new_jobs[k] = d_jobs[Nth(FirstSightings, k)]
        /\ \A k, l \in 1..Len(d_new_jobs) :
              k # l => Ids(d_new_jobs)[k] # Ids(d_new_jobs)[l]
        /\ \A k \in 1..Len(d_new_jobs) : Ids(d_new_jobs)[k] \notin Range(seen_identifiers)

\* The example of the claim: seen {1,2}, batch ids [2,3,3], one new job, id 3.
C1_Witness ==
    /\ d_pc = "split"
    /\ seen_identifiers = <<Id1, Id2>>
    /\ Ids(d_jobs) = <<Id2, Id3, Id3>>
    /\ Ids(d_new_jobs) = <<Id3>>

\* Strictly ascending in str order: sorted, no duplicates.
StrictlySorted(s) == \A i \in 1..(Len(s) - 1) : StrLess(s[i], s[i + 1])

\* C2: after every cycle the returned list is exactly the union of the loaded
\* list and the batch's identifiers, strictly sorted; the persisted list never
\* loses an identifier; no identifier is reported new in more than one cycle.
C2_SeenOnlyGrows ==
    /\ [](d_pc = "split" =>
            /\ Range(d_updated) = Range(seen_identifiers) \cup Range(Ids(d_jobs))
            /\ StrictlySorted(d_updated)
            /\ Range(seen_file) \subseteq Range(d_updated))
    /\ [](\A id \in AllIds : d_reported[id] <= 1)
    /\ [][Range(seen_file) \subseteq Range(seen_file')]_vars

\* A later cycle meets an identifier it has already seen and two new ones; the
\* returned list is in str order ("10" sorts before "2").
C2_Witness ==
    /\ d_pc = "split"
    /\ seen_identifiers = <<Id1, Id2>>
    /\ Ids(d_jobs) = <<Id3, Id2, Id10>>
    /\ d_updated = <<Id1, Id10, Id2, Id3>>
    /\ d_reported[Id2] = 1

---------------------------------------------------------------------------
(* notify/telegram.py                                                      *)

MaxText == 5
MaxLimit == 3

\* Characters of the texts tried: two letters and the line boundaries "\n", "\r"
\* (with "\r\n" a single boundary).
TextChars == {"a", "b", "\n", "\r"}
Texts == UNION {[1..n -> TextChars] : n \in 0..MaxText}

\* Length of the first line of a non-empty text, its line ending included.
RECURSIVE FirstLineLen(_, _)
FirstLineLen(text, i) ==
    IF i > Len(text) THEN Len(text)
    ELSE IF text[i] = "\n" THEN i
    ELSE IF text[i] = "\r"
         THEN (IF i < Len(text) /\ text[i + 1] = "\n" THEN i + 1 ELSE i)
    ELSE FirstLineLen(text, i + 1)

\* text.splitlines(keepends=True)
RECURSIVE SplitLinesKeepEnds(_)
SplitLinesKeepEnds(text) ==
    IF text = <<>> THEN <<>>
    ELSE LET n == FirstLineLen(text, 1)
         IN  <<SubSeq(text, 1, n)>> \o SplitLinesKeepEnds(SubSeq(text, n + 1, Len(text)))

Min(a, b) == IF a < b THEN a ELSE b

\* [line[i : i + limit] for i in range(0, len(line), limit)]
HardSplit(line, limit) ==
    [k \in 1..((Len(line) + limit - 1) \div limit) |->
        SubSeq(line, (k - 1) * limit + 1, Min(k * limit, Len(line)))]

\* chunks.append("".join(buf)); buf, size = [], 0
Flush(st) == [chunks |-> Append(st.chunks, Join(st.buf)), buf |-> <<>>, size |-> 0]

\* Mutant: the buffer is not flushed before an over-long line is hard-split.
ChunkStepNoFlush(st, line, limit) ==
    IF Len(line) > limit
    THEN [st EXCEPT !.chunks = @ \o HardSplit(line, limit)]
    ELSE LET f == IF st.size + Len(line) > limit /\ st.buf # <<>> THEN Flush(st) ELSE st
         IN  [f EXCEPT !.buf = Append(@, line), !.size = @ + Len(line)]

\* Mutant: the flush test forgets the length of the incoming line.
ChunkStepLateFlush(st, line, limit) ==
    IF Len(line) > limit
    THEN LET f == IF st.buf # <<>> THEN Flush(st) ELSE st
         IN  [f EXCEPT !.chunks = @ \o HardSplit(line, limit)]
    ELSE LET f == IF st.size > limit /\ st.buf # <<>> THEN Flush(st) ELSE st
         IN  [f EXCEPT !.buf = Append(@, line), !.size = @ + Len(line)]

\* One iteration of the for loop of _chunk_text.
ChunkStep(st, line, limit) ==
    IF Len(line) > limit
    THEN LET f == IF st.buf # <<>> THEN Flush(st) ELSE st
         IN  [f EXCEPT !.chunks = @ \o HardSplit(line, limit)]
    ELSE LET f == IF st.size + Len(line) > limit /\ st.buf # <<>> THEN Flush(st) ELSE st
         IN  [f EXCEPT !.buf = Append(@, line), !.size = @ + Len(line)]

RECURSIVE ChunkLoop(_, _, _, _)
ChunkLoop(lines, i, st, limit) ==
    IF i > Len(lines) THEN st
    ELSE ChunkLoop(lines, i + 1, ChunkStep(st, lines[i], limit), limit)

\* _chunk_text(text, limit)
chunk_text(text, limit) ==
    LET st == ChunkLoop(SplitLinesKeepEnds(text), 1,
                        [chunks |-> <<>>, buf |-> <<>>, size |-> 0], limit)
        chunks == IF st.buf # <<>> THEN Append(st.chunks, Join(st.buf)) ELSE st.chunks
    IN  IF chunks = <<>> THEN << <<>> >> ELSE chunks

ChunkIdle ==
    /\ c_text = <<>>
    /\ c_limit = 1
    /\ c_chunks = <<>>
    /\ c_pc = "idle"

\* A call of _chunk_text with any text and any limit >= 1.
ChunkInit ==
    /\ c_text \in Texts
    /\ c_limit \in 1..MaxLimit
    /\ c_chunks = <<>>
    /\ c_pc = "call"

ChunkText ==
    /\ c_pc = "call"
    /\ c_chunks' = chunk_text(c_text, c_limit)
    /\ c_pc' = "done"
    /\ UNCHANGED <<c_text, c_limit>>
    /\ UNCHANGED nonChunkVars

\* C3: the fragments of _chunk_text, concatenated in order, are the text.
C3_ChunkRoundTrip == c_pc = "done" => Join(c_chunks) = c_text

\* A buffered line, the flush before an over-long line, its hard split, and a
\* buffered line after it.
C3_Witness ==
    /\ c_pc = "done"
    /\ c_limit = 1
    /\ c_text = <<"\n", "a", "\n", "b">>
    /\ c_chunks = << <<"\n">>, <<"a">>, <<"\n">>, <<"b">> >>

\* C4: _chunk_text returns at least one fragment, none longer than the limit,
\* and exactly one empty fragment for the empty text.
C4_ChunkWithinLimit ==
    c_pc = "done" =>
        /\ Len(c_chunks) >= 1
        /\ \A k \in 1..Len(c_chunks) : Len(c_chunks[k]) <= c_limit
        /\ (c_text = <<>> => c_chunks = << <<>> >>)

\* A buffered line flushed just before an over-long line, which is hard-split.
C4_Witness ==
    /\ c_pc = "done"
    /\ c_limit = 2
    /\ c_text = <<"a", "\n", "b", "a", "b">>
    /\ c_chunks = << <<"a", "\n">>, <<"b", "a">>, <<"b">> >>

\* The empty text gives one empty fragment.
C4_WitnessEmpty == c_pc = "done" /\ c_text = <<>> /\ c_chunks = << <<>> >>

---------------------------------------------------------------------------
(* More of Python's str.                                                   *)

UpperCase ==
    <<"A", "B", "C", "D", "E", "F", "G", "H", "I", "J", "K", "L", "M",
      "N", "O", "P", "Q", "R", "S", "T", "U", "V", "W", "X", "Y", "Z">>
LowerCase ==
    <<"a", "b", "c", "d", "e", "f", "g", "h", "i", "j", "k", "l", "m",
      "n", "o", "p", "q", "r", "s", "t", "u", "v", "w", "x", "y", "z">>
LowerTable ==
    [c \in Range(UpperCase) |-> LowerCase[CHOOSE i \in 1..Len(UpperCase) : UpperCase[i] = c]]

\* c.lower()
LowerChar(c) == IF c \in DOMAIN LowerTable THEN LowerTable[c] ELSE c

\* text.lower()
Lower(text) == [i \in 1..Len(text) |-> LowerChar(text[i])]

\* str.isspace for the characters of the alphabet
IsSpace(c) == c \in {" ", "\n", "\r"}

RECURSIVE LStrip(_)
LStrip(text) ==
    IF text # <<>> /\ IsSpace(Head(text)) THEN LStrip(Tail(text)) ELSE text

RECURSIVE RStrip(_)
RStrip(text) ==
    IF text # <<>> /\ IsSpace(text[Len(text)])
    THEN RStrip(SubSeq(text, 1, Len(text) - 1)) ELSE text

\* text.strip()
Strip(text) == RStrip(LStrip(text))

\* Length of the leading run of non-space characters.
WordLen(text) ==
    IF \E i \in 1..Len(text) : IsSpace(text[i])
    THEN (CHOOSE i \in 1..Len(text) :
            IsSpace(text[i]) /\ \A j \in 1..(i - 1) : ~IsSpace(text[j])) - 1
    ELSE Len(text)

\* text.split(): the maximal runs of non-space characters.
RECURSIVE SplitWords(_)
SplitWords(text) ==
    LET t == LStrip(text)
        n == WordLen(t)
    IN  IF t = <<>> THEN <<>>
        ELSE <<SubSeq(t, 1, n)>> \o SplitWords(SubSeq(t, n + 1, Len(t)))

\* sep.join(parts)
RECURSIVE JoinWith(_, _)
JoinWith(sep, parts) ==
    IF parts = <<>> THEN <<>>
    ELSE IF Len(parts) = 1 THEN parts[1]
    ELSE parts[1] \o sep \o JoinWith(sep, Tail(parts))

\* needle in text
IsSubstr(needle, text) ==
    \E i \in 0..(Len(text) - Len(needle)) : SubSeq(text, i + 1, i + Len(needle)) = needle

StartsWith(text, prefix) ==
    Len(text) >= Len(prefix) /\ SubSeq(text, 1, Len(prefix)) = prefix

\* text.rstrip("/")
RECURSIVE RStripSlash(_)
RStripSlash(text) ==
    IF text # <<>> /\ text[Len(text)] = "/"
    THEN RStripSlash(SubSeq(text, 1, Len(text) - 1)) ELSE text

---------------------------------------------------------------------------
(* JSON values (json.loads): a tagged record.  s is the text of a string   *)
(* or the str() of a number; kids are the entries of an object, in order,  *)
(* or the items of a list.                                                 *)

Null == [k |-> "null", s |-> <<>>, kids |-> <<>>]
Str(text) == [k |-> "str", s |-> text, kids |-> <<>>]
Num(text) == [k |-> "num", s |-> text, kids |-> <<>>]
KV(key, val) == [key |-> key, val |-> val]
Dict(entries) == [k |-> "dict", s |-> <<>>, kids |-> entries]
List(items) ==
    [k |-> "list", s |-> <<>>, kids |-> [i \in 1..Len(items) |-> KV("", items[i])]]

\* A key a document leaves out.
Absent == [k |-> "absent", s |-> <<>>, kids |-> <<>>]
Opt(key, val) == IF val = Absent THEN <<>> ELSE <<KV(key, val)>>

Items(list) == [i \in 1..Len(list.kids) |-> list.kids[i].val]

\* dict.get(key): None when the key is missing.
RECURSIVE GetFrom(_, _, _)
GetFrom(entries, key, i) ==
    IF i = 0 THEN Null
    ELSE IF entries[i].key = key THEN entries[i].val
    ELSE GetFrom(entries, key, i - 1)

DictGet(d, key) == GetFrom(d.kids, key, Len(d.kids))

HasKey(d, key) == \E i \in 1..Len(d.kids) : d.kids[i].key = key

\* key.lower() for the keys the documents use.
LowerKey(key) ==
    CASE key = "Title" -> "title"
      [] key = "jobTitle" -> "jobtitle"
      [] key = "jobId" -> "jobid"
      [] key = "jobPostingId" -> "jobpostingid"
      [] key = "jobUrl" -> "joburl"
      [] key = "absoluteUrl" -> "absoluteurl"
      [] key = "applyUrl" -> "applyurl"
      [] key = "jobPostingUrl" -> "jobpostingurl"
      [] key = "jobPath" -> "jobpath"
      [] key = "departmentName" -> "departmentname"
      [] key = "jobDepartment" -> "jobdepartment"
      [] key = "locationName" -> "locationname"
      [] key = "jobLocation" -> "joblocation"
      [] key = "locationNames" -> "locationnames"
      [] OTHER -> key

\* {key.lower(): value for key, value in payload.items()}: a later entry with
\* the same lowered key replaces an earlier one (GetFrom reads the last).
Lowered(d) == [i \in 1..Len(d.kids) |-> KV(LowerKey(d.kids[i].key), d.kids[i].val)]

\* The first of the candidate keys whose value is a str with non-blank text.
RECURSIVE CoerceNested(_, _)
CoerceNested(value, candidates) ==
    IF candidates = <<>> THEN <<>>
    ELSE LET nested == DictGet(value, Head(candidates))
         IN  IF nested.k = "str" /\ Strip(nested.s) # <<>> THEN nested.s
             ELSE CoerceNested(value, Tail(candidates))

\* _coerce_text(value)
coerce_text(value) ==
    CASE value.k = "null" -> <<>>
      [] value.k = "str" -> value.s
      [] value.k = "num" -> value.s
      [] value.k = "dict" ->
            CoerceNested(value, <<"name", "label", "value", "text", "title">>)
      [] OTHER -> <<>>

RECURSIVE FirstTextIn(_, _)
FirstTextIn(lowered, keys) ==
    IF keys = <<>> THEN <<>>
    ELSE LET parsed == coerce_text(GetFrom(lowered, LowerKey(Head(keys)), Len(lowered)))
         IN  IF parsed # <<>> THEN parsed ELSE FirstTextIn(lowered, Tail(keys))

\* _first_text(payload, keys)
first_text(payload, keys) == FirstTextIn(Lowered(payload), keys)

\* [item for item in (_coerce_text(item) for item in value) if item]
RECURSIVE CleanTexts(_)
CleanTexts(items) ==
    IF items = <<>> THEN <<>>
    ELSE LET t == coerce_text(Head(items))
         IN  (IF t # <<>> THEN <<t>> ELSE <<>>) \o CleanTexts(Tail(items))

RECURSIVE FirstCollectionIn(_, _)
FirstCollectionIn(lowered, keys) ==
    IF keys = <<>> THEN <<>>
    ELSE LET value == GetFrom(lowered, LowerKey(Head(keys)), Len(lowered))
             clean == IF value.k = "list" THEN CleanTexts(Items(value)) ELSE <<>>
         IN  IF clean # <<>> THEN clean ELSE FirstCollectionIn(lowered, Tail(keys))

\* _first_collection_text(payload, keys)
first_collection_text(payload, keys) == FirstCollectionIn(Lowered(payload), keys)

\* _extract_location(posting)
extract_location(posting) ==
    LET direct == first_text(posting, <<"location", "locationName", "jobLocation", "city">>)
        location_parts == first_collection_text(posting, <<"locations", "locationNames">>)
    IN  IF direct # <<>> THEN direct
        ELSE IF location_parts # <<>> THEN JoinWith(<<",", " ">>, location_parts)
        ELSE <<>>

---------------------------------------------------------------------------
(* urllib.parse, for URLs without query, fragment or dot segments.         *)

\* Characters of the alphabet that cannot be part of a URL scheme.
IsSchemeChar(c) == c \notin {"\n", "\r", " ", ",", "/", ":", "|"}

\* Length of the scheme with its colon ("https:" -> 6), 0 when there is none.
SchemeLen(url) ==
    IF \E i \in 2..Len(url) : url[i] = ":" /\ \A j \in 1..(i - 1) : IsSchemeChar(url[j])
    THEN CHOOSE i \in 2..Len(url) :
            /\ url[i] = ":"
            /\ \A j \in 1..(i - 1) : IsSchemeChar(url[j])
    ELSE 0

\* Length of the leading run of characters other than "/".
UntilSlash(text) ==
    IF \E i \in 1..Len(text) : text[i] = "/"
    THEN (CHOOSE i \in 1..Len(text) :
            text[i] = "/" /\ \A j \in 1..(i - 1) : text[j] # "/") - 1
    ELSE Len(text)

\* urlparse(url): scheme (with its colon), "//" + netloc, and path.
UrlParse(url) ==
    LET n == SchemeLen(url)
        rest == SubSeq(url, n + 1, Len(url))
        hasNetloc == StartsWith(rest, <<"/", "/">>)
        hostLen == IF hasNetloc THEN 2 + UntilSlash(SubSeq(rest, 3, Len(rest))) ELSE 0
    IN  [scheme |-> SubSeq(url, 1, n),
         netloc |-> SubSeq(rest, 1, hostLen),
         path |-> SubSeq(rest, hostLen + 1, Len(rest))]

\* Position of the last "/" of a text, 0 when there is none.
RECURSIVE LastSlash(_)
LastSlash(text) ==
    IF text = <<>> THEN 0
    ELSE IF text[Len(text)] = "/" THEN Len(text)
    ELSE LastSlash(SubSeq(text, 1, Len(text) - 1))

\* urljoin(base, url)
UrlJoin(base, url) ==
    LET b == UrlParse(base)
        u == UrlParse(url)
    IN  IF url = <<>> THEN base
        ELSE IF u.scheme # <<>> /\ u.scheme # b.scheme THEN url
        ELSE IF u.netloc # <<>> THEN b.scheme \o u.netloc \o u.path
        ELSE IF StartsWith(u.path, <<"/">>) THEN b.scheme \o b.netloc \o u.path
        ELSE b.scheme \o b.netloc \o SubSeq(b.path, 1, LastSlash(b.path)) \o u.path

---------------------------------------------------------------------------
(* connectors/ashby.py: the job predicates and the normalizer.             *)

UrlKeys == <<"jobUrl", "absoluteUrl", "applyUrl", "url", "jobPostingUrl", "jobPath", "path">>

JobUrlTokens == {<<"j", "o", "b">>, <<"j", "o", "b", "s">>, <<"p", "o", "s", "i", "t", "i", "o", "n">>, <<"r", "o", "l", "e">>}

\* Mutant: any path with a slash passes.
LooksLikeJobUrlAnyPath(raw_url) ==
    IF raw_url = <<>> THEN FALSE
    ELSE IsSubstr(<<"/">>, Lower(UrlParse(raw_url).path))

\* _looks_like_job_url(raw_url)
looks_like_job_url(raw_url) ==
    IF raw_url = <<>> THEN FALSE
    ELSE LET path == Lower(UrlParse(raw_url).path)
         IN  IsSubstr(<<"/">>, path) /\ \E token \in JobUrlTokens : IsSubstr(token, path)

\* _looks_like_job(item)
looks_like_job(item) ==
    LET keys == {LowerKey(item.kids[i].key) : i \in 1..Len(item.kids)}
        has_title == \E key \in {"title", "jobtitle"} : key \in keys
        has_identifier == \E key \in {"id", "jobid", "jobpostingid"} : key \in keys
        raw_url == first_text(item, UrlKeys)
        has_job_url == looks_like_job_url(raw_url)
    IN  has_title /\ (has_identifier \/ has_job_url)

TitleMax == 200

NoJob ==
    [none |-> TRUE, company |-> <<>>, job_id |-> <<>>, title |-> <<>>,
     team |-> <<>>, location |-> <<>>, url |-> <<>>]

\* Mutant: the empty-identifier check is missing.
NormalizeJobNoIdCheck(company, board_url, posting) ==
    LET t0 == first_text(posting, <<"title", "jobTitle", "name">>)
        t1 == IF t0 # <<>> THEN t0 ELSE <<"U", "n", "t", "i", "t", "l", "e", "d", " ", "r", "o", "l", "e">>
        title == JoinWith(<<" ">>, SplitWords(t1))
        team == first_text(posting, <<"team", "department", "departmentName", "jobDepartment">>)
        location == extract_location(posting)
        raw_url == first_text(posting, UrlKeys)
        url == IF raw_url # <<>>
               THEN UrlJoin(RStripSlash(board_url) \o <<"/">>, raw_url)
               ELSE board_url
        raw_id == first_text(posting, <<"id", "jobId", "jobPostingId", "slug">>)
        job_id == Strip(IF raw_id # <<>> THEN raw_id ELSE url)
    IN  IF Len(title) > TitleMax THEN NoJob
        ELSE IF ~looks_like_job_url(url) THEN NoJob
        ELSE [none |-> FALSE, company |-> company, job_id |-> job_id, title |-> title,
              team |-> Strip(team), location |-> Strip(location), url |-> Strip(url)]

\* _normalize_job(company, board_url, posting) -> Job | None
normalize_job(company, board_url, posting) ==
    LET t0 == first_text(posting, <<"title", "jobTitle", "name">>)
        t1 == IF t0 # <<>> THEN t0 ELSE <<"U", "n", "t", "i", "t", "l", "e", "d", " ", "r", "o", "l", "e">>
        title == JoinWith(<<" ">>, SplitWords(t1))
        team == first_text(posting, <<"team", "department", "departmentName", "jobDepartment">>)
        location == extract_location(posting)
        raw_url == first_text(posting, UrlKeys)
        url == IF raw_url # <<>>
               THEN UrlJoin(RStripSlash(board_url) \o <<"/">>, raw_url)
               ELSE board_url
        raw_id == first_text(posting, <<"id", "jobId", "jobPostingId", "slug">>)
        job_id == Strip(IF raw_id # <<>> THEN raw_id ELSE url)
    IN  IF Len(title) > TitleMax THEN NoJob
        ELSE IF ~looks_like_job_url(url) THEN NoJob
        ELSE IF job_id = <<>> THEN NoJob
        ELSE [none |-> FALSE, company |-> company, job_id |-> job_id, title |-> title,
              team |-> Strip(team), location |-> Strip(location), url |-> Strip(url)]

---------------------------------------------------------------------------
(* One call of _normalize_job.                                             *)

Company == <<"a", "c", "m", "e">>
BoardX == <<"h", "t", "t", "p", "s", ":", "/", "/", "x", ".", "c", "o", "m", "/", "a", "c", "m", "e">>
BoardUrls == {BoardX, <<"h", "t", "t", "p", "s", ":", "/", "/", "x", ".", "c", "o", "m", "/", "a", "c", "m", "e", "/">>, <<"h", "t", "t", "p", "s", ":", "/", "/", "x", ".", "c", "o", "m", "/", "j", "o", "b", "s">>}

\* A title of n characters.
LongTitle(n) == [i \in 1..n |-> "x"]

TitleVals ==
    { Absent, Null, Str(<<>>), Str(<<" ", " ">>), Str(<<"E", "n", "g", "i", "n", "e", "e", "r">>),
      Str(<<" ", "S", "e", "n", "i", "o", "r", " ", " ", "E", "n", "g", "i", "n", "e", "e", "r", " ">>), Dict(<<KV("name", Str(<<"E", "n", "g", "i", "n", "e", "e", "r">>))>>),
      Str(LongTitle(TitleMax)), Str(LongTitle(TitleMax + 1)) }
JobTitleVals == {Absent, Str(<<"D", "e", "s", "i", "g", "n", "e", "r">>)}
IdVals == {Absent, Str(<<"4", "2">>), Str(<<" ", " ">>), Num(<<"7">>)}
SlugVals == {Absent, Str(<<"e", "n", "g", "4", "2">>)}
JobUrlVals ==
    { Absent, Str(<<"/", "c", "a", "r", "e", "e", "r", "s", "/", "4", "2">>), Str(<<"/", "j", "o", "b", "s", "/", "4", "2">>), Str(<<"j", "o", "b", "s", "/", "4", "2">>),
      Str(<<"h", "t", "t", "p", "s", ":", "/", "/", "o", "t", "h", "e", "r", ".", "c", "o", "m", "/", "r", "o", "l", "e", "/", "9">>), Str(<<"/", "P", "o", "s", "i", "t", "i", "o", "n", "/", "9">>) }
TeamVals == {Absent, Str(<<" ", "E", "n", "g", " ">>)}
LocationLists == List(<<Str(<<"N", "Y", "C">>), Null, Dict(<<KV("name", Str(<<"L", "o", "n", "d", "o", "n">>))>>)>>)
LocationVals ==
    { <<Absent, Absent>>, <<Str(<<"R", "e", "m", "o", "t", "e", " ">>), LocationLists>>, <<Absent, LocationLists>> }

Posting(title, jobTitle, id, slug, jobUrl, team, loc) ==
    Dict(Opt("title", title) \o Opt("jobTitle", jobTitle) \o Opt("id", id)
         \o Opt("slug", slug) \o Opt("jobUrl", jobUrl) \o Opt("team", team)
         \o Opt("location", loc[1]) \o Opt("locations", loc[2]))

Postings ==
    { Posting(t, jt, i, sl, u, tm, loc) :
        t \in TitleVals, jt \in JobTitleVals, i \in IdVals, sl \in SlugVals,
        u \in JobUrlVals, tm \in TeamVals, loc \in LocationVals }

NormIdle ==
    /\ n_board_url = <<>>
    /\ n_posting = Null
    /\ n_job = NoJob
    /\ n_pc = "idle"

NormInit ==
    /\ n_board_url \in BoardUrls
    /\ n_posting \in Postings
    /\ n_job = NoJob
    /\ n_pc = "call"

NormalizeJob ==
    /\ n_pc = "call"
    /\ n_job' = normalize_job(Company, n_board_url, n_posting)
    /\ n_pc' = "done"
    /\ UNCHANGED <<n_board_url, n_posting>>
    /\ UNCHANGED nonNormVars

\* The posting of the example, with the given jobUrl.
ExamplePosting(jobUrl) ==
    Dict(<<KV("title", Str(<<"E", "n", "g", "i", "n", "e", "e", "r">>)), KV("id", Str(<<"4", "2">>)), KV("jobUrl", Str(jobUrl))>>)

\* C5 as stated: the example posting, jobUrl "/careers/42" on board
\* "https://x.com/acme", normalizes to a Job with url
\* "https://x.com/careers/42" and job_id "42".
C5_ExampleYieldsJob ==
    (n_pc = "done" /\ n_board_url = BoardX /\ n_posting = ExamplePosting(<<"/", "c", "a", "r", "e", "e", "r", "s", "/", "4", "2">>))
        => /\ ~n_job.none
           /\ n_job.url = <<"h", "t", "t", "p", "s", ":", "/", "/", "x", ".", "c", "o", "m", "/", "c", "a", "r", "e", "e", "r", "s", "/", "4", "2">>
           /\ n_job.job_id = <<"4", "2">>

\* The text of a posting's jobUrl field when it is a path from the root.
RootPath(posting) ==
    LET u == DictGet(posting, "jobUrl")
    IN  IF u.k = "str" /\ StartsWith(u.s, <<"/">>) THEN u.s ELSE <<>>

\* C5 amended: a jobUrl that is a path is resolved against the board's origin,
\* and the posting becomes a Job, with the explicit id as job_id, exactly when
\* that resolved URL has a job, position or role token in its path (and the id
\* is not blank); the example's "/careers/42" has none and normalizes to None,
\* while jobUrl "/jobs/42" gives url "https://x.com/jobs/42", job_id "42".
C5_RelativeUrlResolved ==
    n_pc = "done" =>
        /\ (n_board_url = BoardX /\ n_posting = ExamplePosting(<<"/", "c", "a", "r", "e", "e", "r", "s", "/", "4", "2">>))
              => n_job = NoJob
        /\ (n_board_url = BoardX /\ n_posting = ExamplePosting(<<"/", "j", "o", "b", "s", "/", "4", "2">>))
              => n_job = [none |-> FALSE, company |-> Company, job_id |-> <<"4", "2">>,
                          title |-> <<"E", "n", "g", "i", "n", "e", "e", "r">>, team |-> <<>>, location |-> <<>>,
                          url |-> <<"h", "t", "t", "p", "s", ":", "/", "/", "x", ".", "c", "o", "m", "/", "j", "o", "b", "s", "/", "4", "2">>]
        /\ (RootPath(n_posting) # <<>> /\ ~n_job.none)
              => /\ n_job.url = <<"h", "t", "t", "p", "s", ":", "/", "/", "x", ".", "c", "o", "m">> \o RootPath(n_posting)
                 /\ \E token \in JobUrlTokens : IsSubstr(token, Lower(RootPath(n_posting)))
                 /\ DictGet(n_posting, "id").k = "str"
                        => n_job.job_id = Strip(DictGet(n_posting, "id").s)
        /\ (RootPath(n_posting) # <<>> /\ n_job.none /\ DictGet(n_posting, "id") = Str(<<"4", "2">>)
            /\ Len(first_text(n_posting, <<"title", "jobTitle", "name">>)) < TitleMax)
              => ~\E token \in JobUrlTokens : IsSubstr(token, Lower(RootPath(n_posting)))

C5_Witness ==
    /\ n_pc = "done"
    /\ n_board_url = BoardX
    /\ n_posting = ExamplePosting(<<"/", "j", "o", "b", "s", "/", "4", "2">>)
    /\ n_job.url = <<"h", "t", "t", "p", "s", ":", "/", "/", "x", ".", "c", "o", "m", "/", "j", "o", "b", "s", "/", "4", "2">>
    /\ n_job.job_id = <<"4", "2">>

\* The example of the claim reaches None.
C5_WitnessExample ==
    /\ n_pc = "done"
    /\ n_board_url = BoardX
    /\ n_posting = ExamplePosting(<<"/", "c", "a", "r", "e", "e", "r", "s", "/", "4", "2">>)
    /\ n_job.none

TitleKeys == <<"title", "jobTitle", "name">>

\* The URL _normalize_job tests: the first URL-like field joined to the board
\* URL, or the board URL itself.
ResolvedUrl(board_url, posting) ==
    IF first_text(posting, UrlKeys) # <<>>
    THEN UrlJoin(RStripSlash(board_url) \o <<"/">>, first_text(posting, UrlKeys))
    ELSE board_url

\* The identifier _normalize_job tests: the first id-like field, else the URL.
ResolvedId(board_url, posting) ==
    LET raw_id == first_text(posting, <<"id", "jobId", "jobPostingId", "slug">>)
    IN  Strip(IF raw_id # <<>> THEN raw_id ELSE ResolvedUrl(board_url, posting))

\* C6 as stated: a posting whose title resolves to nothing (no title field, an
\* empty or a blank title) or to an over-long text, whose URL fails the job-URL
\* heuristic or whose identifier is empty gives None; every Job has a non-empty
\* title of bounded length, a job URL and a non-empty job_id.
C6_RejectsEmptyTitle ==
    n_pc = "done" =>
        /\ Strip(first_text(n_posting, TitleKeys)) = <<>> => n_job.none
        /\ ~n_job.none =>
              /\ n_job.title # <<>>
              /\ Len(n_job.title) <= TitleMax
              /\ looks_like_job_url(n_job.url)
              /\ n_job.job_id # <<>>

\* C6 amended: _normalize_job gives None exactly when the whitespace-collapsed
\* title is longer than 200 characters, the resolved URL fails the job-URL
\* heuristic, or the identifier strips to nothing.  A posting without a title
\* is not rejected: it gets the title "Untitled role"; a blank title collapses
\* to the empty title.  Every Job has a title of at most 200 characters, a url
\* that passes the heuristic and a non-empty job_id.
C6_RejectionConditions ==
    n_pc = "done" =>
        LET raw == first_text(n_posting, TitleKeys)
            collapsed == JoinWith(<<" ">>, SplitWords(raw))
        IN  /\ n_job.none <=>
                  \/ Len(collapsed) > TitleMax
                  \/ ~looks_like_job_url(ResolvedUrl(n_board_url, n_posting))
                  \/ ResolvedId(n_board_url, n_posting) = <<>>
            /\ ~n_job.none =>
                  /\ Len(n_job.title) <= TitleMax
                  /\ looks_like_job_url(n_job.url)
                  /\ n_job.job_id # <<>>
                  /\ raw = <<>> => n_job.title = <<"U", "n", "t", "i", "t", "l", "e", "d", " ", "r", "o", "l", "e">>
                  /\ raw # <<>> => n_job.title = collapsed
                  /\ n_job.title = <<>> <=> (raw # <<>> /\ Strip(raw) = <<>>)

\* A posting with no title field at all becomes a Job titled "Untitled role".
C6_Witness ==
    /\ n_pc = "done"
    /\ ~HasKey(n_posting, "title")
    /\ ~HasKey(n_posting, "jobTitle")
    /\ ~n_job.none
    /\ n_job.title = <<"U", "n", "t", "i", "t", "l", "e", "d", " ", "r", "o", "l", "e">>

\* A blank title becomes a Job with the empty title.
C6_WitnessBlankTitle ==
    /\ n_pc = "done"
    /\ DictGet(n_posting, "title") = Str(<<" ", " ">>)
    /\ ~n_job.none
    /\ n_job.title = <<>>

\* The three rejections: an over-long title, a URL without a job token, a
\* blank identifier.
C6_WitnessLongTitle ==
    /\ n_pc = "done"
    /\ DictGet(n_posting, "title") = Str(LongTitle(TitleMax + 1))
    /\ looks_like_job_url(ResolvedUrl(n_board_url, n_posting))
    /\ ResolvedId(n_board_url, n_posting) # <<>>
    /\ n_job.none

C6_WitnessBlankId ==
    /\ n_pc = "done"
    /\ DictGet(n_posting, "id") = Str(<<" ", " ">>)
    /\ looks_like_job_url(ResolvedUrl(n_board_url, n_posting))
    /\ Len(first_text(n_posting, TitleKeys)) <= TitleMax
    /\ n_job.none

---------------------------------------------------------------------------
(* connectors/ashby.py: the posting locator.                               *)

KNOWN_POSTING_PATHS ==
    << <<"props", "pageProps", "jobPostings">>,
       <<"props", "pageProps", "jobs">>,
       <<"props", "pageProps", "board", "jobPostings">>,
       <<"props", "pageProps", "board", "jobs">>,
       <<"props", "pageProps", "organization", "jobPostings">>,
       <<"props", "pageProps", "organization", "jobs">> >>

\* _get_path(payload, path): None when a step is not a dict or lacks the key.
RECURSIVE get_path(_, _)
get_path(node, path) ==
    IF path = <<>> THEN node
    ELSE IF node.k # "dict" \/ ~HasKey(node, Head(path)) THEN Null
    ELSE get_path(DictGet(node, Head(path)), Tail(path))

\* sum(_looks_like_job(item) for item in items)
ValidCount(items) == Cardinality({i \in 1..Len(items) : looks_like_job(items[i])})

Max(a, b) == IF a > b THEN a ELSE b

\* Mutant: the threshold is half rounded up.
IsPostingListCeil(node) ==
    IF node.k # "list" \/ node.kids = <<>>
       \/ \E i \in 1..Len(node.kids) : node.kids[i].val.k # "dict"
    THEN FALSE
    ELSE ValidCount(Items(node)) >= Max(1, (Len(node.kids) + 1) \div 2)

\* _is_posting_list(node)
is_posting_list(node) ==
    IF node.k # "list" \/ node.kids = <<>>
       \/ \E i \in 1..Len(node.kids) : node.kids[i].val.k # "dict"
    THEN FALSE
    ELSE ValidCount(Items(node)) >= Max(1, Len(node.kids) \div 2)

\* walk(node): the candidate lists in the order they are appended.  A dict
\* walks its values in order; a list is tested, then its items are walked.
RECURSIVE Walk(_)
RECURSIVE WalkKids(_, _)
WalkKids(kids, i) ==
    IF i > Len(kids) THEN <<>> ELSE Walk(kids[i].val) \o WalkKids(kids, i + 1)
Walk(node) ==
    IF node.k = "dict" THEN WalkKids(node.kids, 1)
    ELSE IF node.k = "list"
         THEN (IF is_posting_list(node) THEN <<node>> ELSE <<>>) \o WalkKids(node.kids, 1)
    ELSE <<>>

\* Mutant: a later candidate with the same score replaces the best so far.
RECURSIVE MaxByScoreLast(_, _, _)
MaxByScoreLast(candidates, i, best) ==
    IF i > Len(candidates) THEN best
    ELSE MaxByScoreLast(candidates, i + 1,
            IF ValidCount(Items(candidates[i])) >= ValidCount(Items(best))
            THEN candidates[i] ELSE best)

\* max(candidates, key=...): a later candidate replaces the best so far only
\* with a strictly greater key.
RECURSIVE MaxByScore(_, _, _)
MaxByScore(candidates, i, best) ==
    IF i > Len(candidates) THEN best
    ELSE MaxByScore(candidates, i + 1,
            IF ValidCount(Items(candidates[i])) > ValidCount(Items(best))
            THEN candidates[i] ELSE best)

\* The first known path, from index i on, whose value is a posting list; 0 if none.
RECURSIVE FirstKnownPath(_, _)
FirstKnownPath(payload, i) ==
    IF i > Len(KNOWN_POSTING_PATHS) THEN 0
    ELSE IF is_posting_list(get_path(payload, KNOWN_POSTING_PATHS[i])) THEN i
    ELSE FirstKnownPath(payload, i + 1)

\* _find_job_postings(payload): the list returned, with the return statement
\* taken (ret) and, for the first one, the index of the known path.
find_job_postings(payload) ==
    LET known == FirstKnownPath(payload, 1)
        candidates == Walk(payload)
    IN  IF known # 0
        THEN [ret |-> "known", path |-> known,
              postings |-> Items(get_path(payload, KNOWN_POSTING_PATHS[known]))]
        ELSE IF candidates = <<>>
        THEN [ret |-> "empty", path |-> 0, postings |-> <<>>]
        ELSE [ret |-> "max", path |-> 0,
              postings |-> Items(MaxByScore(candidates, 2, candidates[1]))]

---------------------------------------------------------------------------
(* Documents for the locator.                                              *)

MaxList == 3

Digits == <<"1", "2", "3", "4", "5", "6", "7", "8", "9">>

\* Items of a list: a job with title and id, an object with a title only, a
\* job with a (capitalized) title key and a job URL, an object whose URL is
\* not a job URL.
JobItem(id) == Dict(<<KV("title", Str(<<"E", "n", "g", "i", "n", "e", "e", "r">>)), KV("id", Str(id))>>)
PerkItem == Dict(<<KV("title", Str(<<"P", "e", "r", "k">>))>>)
UrlItem(id) == Dict(<<KV("Title", Str(<<"A", "n", "a", "l", "y", "s", "t">>)), KV("jobUrl", Str(<<"/", "j", "o", "b", "s", "/">> \o id))>>)
AboutItem == Dict(<<KV("title", Str(<<"A", "b", "o", "u", "t">>)), KV("url", Str(<<"/", "a", "b", "o", "u", "t">>))>>)

\* The list a pattern stands for; ids carry the slot's tag and the position.
ListOf(tag, pattern) ==
    List([i \in 1..Len(pattern) |->
            CASE pattern[i] = "J" -> JobItem(<<tag, Digits[i]>>)
              [] pattern[i] = "U" -> UrlItem(<<tag, Digits[i]>>)
              [] OTHER -> PerkItem])

Patterns(kinds) == UNION {[1..n -> kinds] : n \in 0..MaxList}

\* Values at a known path: missing, null, a string, a list of jobs and
\* title-only objects, a list with a non-object, a list judged by URL.
KnownVals(tag) ==
    {Absent, Null, Str(<<"x">>)}
    \cup {ListOf(tag, p) : p \in Patterns({"J", "T"})}
    \cup {List(<<JobItem(<<tag, "1">>), Str(<<"x">>)>>),
          List(<<UrlItem(<<tag, "1">>), AboutItem>>)}

\* A list whose only item holds a list of its own, with the same score.
NestedList(tag) ==
    List(<<Dict(<<KV("title", Str(<<"L", "e", "a", "d">>)), KV("id", Str(<<tag, "0">>)),
                  KV("related", ListOf(tag, <<"J">>))>>)>>)

\* Values elsewhere in the document.
WalkVals(tag) ==
    {Absent} \cup {ListOf(tag, p) : p \in Patterns({"J", "T"})} \cup {NestedList(tag)}

Wrap(key, val) == IF val = Absent THEN Absent ELSE Dict(<<KV(key, val)>>)

Doc(a, b, c, w1, w2, w3) ==
    Dict(<<KV("props", Dict(<<KV("pageProps",
                Dict(Opt("jobPostings", a) \o Opt("jobs", b)
                     \o Opt("board", Wrap("jobs", c)) \o Opt("widgets", w1)))>>))>>
         \o Opt("extra", Wrap("items", w2))
         \o Opt("more", IF w3 = Absent THEN Absent ELSE List(<<Dict(<<KV("inner", w3)>>)>>)))

\* A list elsewhere in the document with more jobs than any known-path list.
HighList == List([i \in 1..(MaxList + 1) |-> JobItem(<<"h", Digits[i]>>)])

\* Documents that exercise the known paths, and documents that exercise the walk.
Docs ==
    {Doc(a, b, c, Absent, HighList, Absent) :
        a \in KnownVals("a"), b \in KnownVals("b"), c \in {Absent, ListOf("c", <<"J">>)}}
    \cup
    {Doc(a, Absent, Absent, w1, w2, w3) :
        a \in {Absent, Str(<<"x">>), ListOf("a", <<"T">>), List(<<Str(<<"x">>)>>)},
        w1 \in WalkVals("v"), w2 \in WalkVals("w"),
        w3 \in {Absent, ListOf("z", <<"J", "J">>)}}

LocInit ==
    /\ l_payload \in Docs
    /\ l_found = [ret |-> "none", path |-> 0, postings |-> <<>>]
    /\ l_pc = "call"

FindJobPostings ==
    /\ l_pc = "call"
    /\ l_found' = find_job_postings(l_payload)
    /\ l_pc' = "done"
    /\ UNCHANGED l_payload
    /\ UNCHANGED nonLocVars

\* The positions of a document: the sequence of child indices from the root.
RECURSIVE PathsOf(_)
PathsOf(node) ==
    {<<>>} \cup UNION {{<<i>> \o q : q \in PathsOf(node.kids[i].val)} : i \in 1..Len(node.kids)}

RECURSIVE NodeAt(_, _)
NodeAt(node, p) == IF p = <<>> THEN node ELSE NodeAt(node.kids[Head(p)].val, Tail(p))

\* p comes before q in a pre-order traversal: p is a proper prefix of q (a
\* node before what it contains), or p branches off to an earlier child.
PreOrderBefore(p, q) ==
    \/ Len(p) < Len(q) /\ SubSeq(q, 1, Len(p)) = p
    \/ \E i \in 1..Min(Len(p), Len(q)) :
          /\ SubSeq(p, 1, i - 1) = SubSeq(q, 1, i - 1)
          /\ p[i] < q[i]

\* Number of items of a list that have a title key and an id key or a job URL.
Passing(node) == Cardinality({i \in 1..Len(node.kids) : looks_like_job(node.kids[i].val)})

\* A non-empty list of objects of which at least one, and at least half
\* rounded down, pass: with n items, passing >= 1 and 2 * passing + 1 >= n.
Accepted(node) ==
    /\ node.k = "list"
    /\ Len(node.kids) >= 1
    /\ \A i \in 1..Len(node.kids) : node.kids[i].val.k = "dict"
    /\ Passing(node) >= 1
    /\ 2 * Passing(node) + 1 >= Len(node.kids)

\* The same with "at least half": 2 * passing >= n.
AcceptedAtLeastHalf(node) ==
    /\ node.k = "list"
    /\ Len(node.kids) >= 1
    /\ \A i \in 1..Len(node.kids) : node.kids[i].val.k = "dict"
    /\ 2 * Passing(node) >= Len(node.kids)

CandidatePaths == {p \in PathsOf(l_payload) : Accepted(NodeAt(l_payload, p))}

\* C8: when no known path matches, _find_job_postings returns the candidate
\* list with the most passing items, and among those with the most, the one
\* first in pre-order (a list before the lists inside its items); with no
\* candidate it returns the empty list.
C8_FirstBestCandidate ==
    (l_pc = "done" /\ l_found.ret # "known") =>
        IF CandidatePaths = {}
        THEN l_found.ret = "empty" /\ l_found.postings = <<>>
        ELSE /\ l_found.ret = "max"
             /\ \E p \in CandidatePaths :
                  /\ l_found.postings = Items(NodeAt(l_payload, p))
                  /\ \A q \in CandidatePaths \ {p} :
                        \/ Passing(NodeAt(l_payload, q)) < Passing(NodeAt(l_payload, p))
                        \/ /\ Passing(NodeAt(l_payload, q)) = Passing(NodeAt(l_payload, p))
                           /\ PreOrderBefore(p, q)

\* Three candidates with one passing item each, the second inside an item of
\* the first: the outer list, first in pre-order, is returned.
C8_Witness ==
    /\ l_pc = "done"
    /\ l_found.ret = "max"
    /\ Cardinality(CandidatePaths) >= 3
    /\ \E p, q \in CandidatePaths :
          /\ Len(p) < Len(q) /\ SubSeq(q, 1, Len(p)) = p
          /\ l_found.postings = Items(NodeAt(l_payload, p))
          /\ Passing(NodeAt(l_payload, p)) = Passing(NodeAt(l_payload, q))
    /\ \A q \in CandidatePaths : Passing(NodeAt(l_payload, q)) = 1

\* Indices of the known paths whose value is accepted, under either reading.
KnownAccepted ==
    {i \in 1..Len(KNOWN_POSTING_PATHS) :
        Accepted(get_path(l_payload, KNOWN_POSTING_PATHS[i]))}
KnownAtLeastHalf ==
    {i \in 1..Len(KNOWN_POSTING_PATHS) :
        AcceptedAtLeastHalf(get_path(l_payload, KNOWN_POSTING_PATHS[i]))}

Least(S) == CHOOSE i \in S : \A j \in S : i <= j

\* C10 as stated: the first known path whose value is a non-empty list of
\* objects with at least half of its items passing is returned at once, and a
\* known-path list with fewer than half passing is never accepted.
C10_AtLeastHalf ==
    l_pc = "done" =>
        IF KnownAtLeastHalf # {}
        THEN /\ l_found.ret = "known"
             /\ l_found.path = Least(KnownAtLeastHalf)
        ELSE l_found.ret # "known"

\* C10 amended: the known paths are tried in order and the first whose value is
\* a non-empty list of objects with at least max(1, floor(n / 2)) of its n
\* items passing is returned at once, without the walk; so a list of odd
\* length n >= 3 is accepted with (n - 1) / 2 passing items, fewer than half.
\* A known-path list with fewer than max(1, floor(n / 2)) passing is not accepted.
C10_KnownPathFloorHalf ==
    l_pc = "done" =>
        IF KnownAccepted # {}
        THEN /\ l_found.ret = "known"
             /\ l_found.path = Least(KnownAccepted)
             /\ l_found.postings =
                    Items(get_path(l_payload, KNOWN_POSTING_PATHS[l_found.path]))
        ELSE l_found.ret # "known"

\* The first known path holds a list that fails, the second a list of three
\* with one passing item; it is returned although a list elsewhere has more.
C10_Witness ==
    /\ l_pc = "done"
    /\ l_found.ret = "known"
    /\ l_found.path = 2
    /\ get_path(l_payload, KNOWN_POSTING_PATHS[1]).k = "list"
    /\ Len(l_found.postings) = 3
    /\ ValidCount(l_found.postings) = 1
    /\ \E p \in CandidatePaths : Passing(NodeAt(l_payload, p)) > 1

---------------------------------------------------------------------------
(* connectors/ashby.py: fetch_jobs.                                        *)

\* [job for posting in postings if (job := _normalize_job(...))]
RECURSIVE NormalizeAll(_, _, _)
NormalizeAll(company, url, postings) ==
    IF postings = <<>> THEN <<>>
    ELSE LET job == normalize_job(company, url, Head(postings))
         IN  (IF job.none THEN <<>> ELSE <<job>>)
             \o NormalizeAll(company, url, Tail(postings))

Returned(jobs) == [raised |-> "", message |-> "", jobs |-> jobs]
Raised(error, message) == [raised |-> error, message |-> message, jobs |-> <<>>]

\* Mutant: no postings is an empty result.
FetchJobsEmptyResult(company, page) ==
    LET postings == find_job_postings(page.payload).postings
        jobs == NormalizeAll(company, page.url, postings)
    IN  IF page.status # "ok" THEN Raised("HTTPError", "")
        ELSE IF page.script = "missing"
        THEN Raised("AshbyFetchError", "__NEXT_DATA__ JSON script was not found")
        ELSE IF page.script = "invalid" THEN Raised("JSONDecodeError", "")
        ELSE IF postings = <<>> THEN Returned(<<>>)
        ELSE IF jobs = <<>>
        THEN Raised("AshbyFetchError",
                    "Job posting payload was found, but no valid jobs were parsed")
        ELSE Returned(jobs)

\* fetch_jobs(company, ashby_url): the jobs returned or the exception raised.
\* The page is what requests.get answers: its status, whether the
\* __NEXT_DATA__ script is there and parses, and the document it holds.
fetch_jobs(company, page) ==
    LET postings == find_job_postings(page.payload).postings
        jobs == NormalizeAll(company, page.url, postings)
    IN  IF page.status # "ok" THEN Raised("HTTPError", "")
        ELSE IF page.script = "missing"
        THEN Raised("AshbyFetchError", "__NEXT_DATA__ JSON script was not found")
        ELSE IF page.script = "invalid" THEN Raised("JSONDecodeError", "")
        ELSE IF postings = <<>>
        THEN Raised("AshbyFetchError", "No job postings were found in __NEXT_DATA__")
        ELSE IF jobs = <<>>
        THEN Raised("AshbyFetchError",
                    "Job posting payload was found, but no valid jobs were parsed")
        ELSE Returned(jobs)

\* Documents for fetch_jobs: a known-path value and a value elsewhere, with
\* jobs that carry an id only, jobs that carry a job URL, and other objects.
FetchDocs ==
    {Doc(a, Absent, Absent, w, Absent, Absent) :
        a \in {Absent, Null, Str(<<"x">>)} \cup {ListOf("a", p) : p \in Patterns({"J", "T", "U"})},
        w \in {Absent, ListOf("w", <<"T">>), ListOf("w", <<"U">>), List(<<Str(<<"x">>)>>)}}

AshbyUrls == {<<"h", "t", "t", "p", "s", ":", "/", "/", "j", "o", "b", "s", ".", "a", "s", "h", "b", "y", "h", "q", ".", "c", "o", "m", "/", "a", "c", "m", "e">>, <<"h", "t", "t", "p", "s", ":", "/", "/", "x", ".", "c", "o", "m", "/", "j", "o", "b", "s">>}

Pages ==
    {[status |-> "ok", script |-> "json", payload |-> d, url |-> u] :
        d \in FetchDocs, u \in AshbyUrls}
    \cup {[status |-> st, script |-> sc, payload |-> Null, url |-> u] :
            st \in {"ok", "error"}, sc \in {"missing", "invalid"}, u \in AshbyUrls}

FetchInit ==
    /\ f_page \in Pages
    /\ f_postings = <<>>
    /\ f_result = Returned(<<>>)
    /\ f_pc = "call"

FetchJobs ==
    /\ f_pc = "call"
    /\ f_result' = fetch_jobs(Company, f_page)
    /\ f_postings' = IF f_page.status = "ok" /\ f_page.script = "json"
                     THEN find_job_postings(f_page.payload).postings ELSE <<>>
    /\ f_pc' = "done"
    /\ UNCHANGED f_page
    /\ UNCHANGED nonFetchVars

\* No list anywhere in the document is a posting list.
NothingPlausible(payload) ==
    \A p \in PathsOf(payload) : ~Accepted(NodeAt(payload, p))

Parsed == f_pc = "done" /\ f_page.status = "ok" /\ f_page.script = "json"

\* C9 as stated: for a document in which no list qualifies the locator returns
\* the empty sequence and fetch_jobs reports an empty result, not an error.
C9_EmptyResultNotError ==
    (Parsed /\ NothingPlausible(f_page.payload)) =>
        /\ f_postings = <<>>
        /\ f_result = Returned(<<>>)

\* C9 amended: for a document in which no list qualifies (in particular one
\* with no list of objects) _find_job_postings returns the empty sequence
\* without raising; fetch_jobs, which calls it, does not report this as an
\* empty result: it raises AshbyFetchError("No job postings were found in
\* __NEXT_DATA__"), and it never returns an empty list of jobs.
C9_LocatorEmptyFetchRaises ==
    /\ Parsed =>
          /\ NothingPlausible(f_page.payload) <=> f_postings = <<>>
          /\ f_postings = <<>> <=>
                f_result = Raised("AshbyFetchError",
                                  "No job postings were found in __NEXT_DATA__")
    /\ f_pc = "done" => (f_result.raised = "" <=> f_result.jobs # <<>>)

\* A document without any list: the locator returns nothing, fetch_jobs raises.
C9_Witness ==
    /\ Parsed
    /\ \A p \in PathsOf(f_page.payload) : NodeAt(f_page.payload, p).k # "list"
    /\ f_postings = <<>>
    /\ f_result.raised = "AshbyFetchError"

\* A document whose lists do not qualify.
C9_WitnessLists ==
    /\ Parsed
    /\ \E p \in PathsOf(f_page.payload) :
          NodeAt(f_page.payload, p).k = "list" /\ Len(NodeAt(f_page.payload, p).kids) = 3
    /\ f_postings = <<>>
    /\ f_result.raised = "AshbyFetchError"

\* fetch_jobs returns jobs, dropping the postings that do not normalize.
C9_WitnessJobs ==
    /\ Parsed
    /\ Len(f_postings) = 3
    /\ Len(f_result.jobs) = 2

---------------------------------------------------------------------------
(* matcher.py                                                              *)

MaxJobs == 2

\* A configured value: missing, a list of keywords, or something that is not a list.
Missing == [k |-> "missing", items |-> <<>>]
Keywords(items) == [k |-> "list", items |-> items]
NotAList == [k |-> "str", items |-> <<>>]

\* Keep the stripped, lower-cased values that are not blank.
RECURSIVE LoweredItems(_)
LoweredItems(items) ==
    IF items = <<>> THEN <<>>
    ELSE (IF Strip(Head(items)) # <<>> THEN <<Lower(Strip(Head(items)))>> ELSE <<>>)
         \o LoweredItems(Tail(items))

\* _lowered(config.get(key, []))
lowered(value) == IF value.k # "list" THEN <<>> ELSE LoweredItems(value.items)

\* any(keyword in text for keyword in keywords)
AnyIn(keywords, text) == \E i \in 1..Len(keywords) : IsSubstr(keywords[i], text)

\* Mutant: the location keywords are searched in the composite string.
FilterStepLocationInComposite(matched, job, include, exclude, locations_include) ==
    LET searchable == Lower(JoinWith(<<" ", "|", " ">>, <<job.title, job.team, job.location>>))
    IN  IF include # <<>> /\ ~AnyIn(include, searchable) THEN matched
        ELSE IF exclude # <<>> /\ AnyIn(exclude, searchable) THEN matched
        ELSE IF locations_include # <<>> /\ ~AnyIn(locations_include, searchable)
        THEN matched
        ELSE Append(matched, job)

\* One iteration of the for loop of filter_jobs.
FilterStep(matched, job, include, exclude, locations_include) ==
    LET searchable == Lower(JoinWith(<<" ", "|", " ">>, <<job.title, job.team, job.location>>))
        location_value == Lower(job.location)
    IN  IF include # <<>> /\ ~AnyIn(include, searchable) THEN matched
        ELSE IF exclude # <<>> /\ AnyIn(exclude, searchable) THEN matched
        ELSE IF locations_include # <<>> /\ ~AnyIn(locations_include, location_value)
        THEN matched
        ELSE Append(matched, job)

RECURSIVE FilterLoop(_, _, _, _, _, _)
FilterLoop(jobs, i, matched, include, exclude, locations_include) ==
    IF i > Len(jobs) THEN matched
    ELSE FilterLoop(jobs, i + 1,
                    FilterStep(matched, jobs[i], include, exclude, locations_include),
                    include, exclude, locations_include)

\* filter_jobs(jobs, config)
filter_jobs(jobs, config) ==
    FilterLoop(jobs, 1, <<>>, lowered(config.include), lowered(config.exclude),
               lowered(config.locations_include))

JobSenior == [title |-> <<"S", "e", "n", "i", "o", "r", " ", "E", "n", "g", "i", "n", "e", "e", "r">>, team |-> <<"E", "n", "g">>, location |-> <<"R", "e", "m", "o", "t", "e">>]
JobIntern == [title |-> <<"E", "n", "g", "i", "n", "e", "e", "r", "i", "n", "g", " ", "I", "n", "t", "e", "r", "n">>, team |-> <<"E", "n", "g">>, location |-> <<"N", "Y", "C">>]
JobDesigner == [title |-> <<"D", "e", "s", "i", "g", "n", "e", "r">>, team |-> <<>>, location |-> <<>>]
JobSales == [title |-> <<"R", "e", "m", "o", "t", "e", " ", "S", "a", "l", "e", "s">>, team |-> <<"O", "p", "s">>, location |-> <<"L", "o", "n", "d", "o", "n">>]
MatchJobs == {JobSenior, JobIntern, JobDesigner, JobSales}

IncludeVals ==
    { Missing, NotAList, Keywords(<<>>), Keywords(<< <<"e", "n", "g", "i", "n", "e", "e", "r">> >>),
      Keywords(<< <<" ", "E", "n", "g", "i", "n", "e", "e", "r", " ">> >>), Keywords(<< <<" ", " ">> >>),
      Keywords(<< <<"s", "a", "l", "e", "s">>, <<"d", "e", "s", "i", "g", "n">> >>), Keywords(<< <<"e", "n", "g", " ", "|", " ", "n", "y", "c">> >>) }
ExcludeVals ==
    { Missing, Keywords(<< <<"i", "n", "t", "e", "r", "n">> >>), Keywords(<< <<"I", "N", "T", "E", "R", "N">>, <<"o", "p", "s">> >>),
      Keywords(<< <<" ", " ">> >>) }
LocationsVals ==
    { Missing, Keywords(<< <<"r", "e", "m", "o", "t", "e">> >>), Keywords(<< <<"e", "n", "g">> >>),
      Keywords(<< <<"n", "y", "c">>, <<"L", "O", "N", "D", "O", "N">> >>) }

MatchInit ==
    /\ m_jobs \in UNION {[1..n -> MatchJobs] : n \in 0..MaxJobs}
    /\ m_config \in [include : IncludeVals, exclude : ExcludeVals,
                     locations_include : LocationsVals]
    /\ m_matched = <<>>
    /\ m_pc = "call"

FilterJobs ==
    /\ m_pc = "call"
    /\ m_matched' = filter_jobs(m_jobs, m_config)
    /\ m_pc' = "done"
    /\ UNCHANGED <<m_jobs, m_config>>
    /\ UNCHANGED nonMatchVars

\* The keywords of a configured value as filter_jobs holds them in include,
\* exclude and locations_include: stripped, lower-cased, blanks left out.
KeywordSet(value) ==
    IF value.k # "list" THEN {}
    ELSE {Lower(Strip(value.items[i])) :
            i \in {j \in 1..Len(value.items) : Strip(value.items[j]) # <<>>}}

\* title | team | location, lower-cased.
Composite(job) ==
    Lower(job.title) \o <<" ", "|", " ">> \o Lower(job.team) \o <<" ", "|", " ">> \o Lower(job.location)

Retained(job) ==
    LET include == KeywordSet(m_config.include)
        exclude == KeywordSet(m_config.exclude)
        locations_include == KeywordSet(m_config.locations_include)
    IN  /\ include = {} \/ \E kw \in include : IsSubstr(kw, Composite(job))
        /\ exclude = {} \/ ~\E kw \in exclude : IsSubstr(kw, Composite(job))
        /\ locations_include = {}
              \/ \E kw \in locations_include : IsSubstr(kw, Lower(job.location))

RetainedPositions == {i \in 1..Len(m_jobs) : Retained(m_jobs[i])}

\* C7: filter_jobs returns, in input order, exactly the jobs for which
\* (include is empty or some include keyword is in the lower-cased composite
\* title | team | location) and (exclude is empty or no exclude keyword is in
\* the composite) and (locations_include is empty or some location keyword is
\* in the lower-cased location alone).
C7_FilterRetainsExactly ==
    m_pc = "done" =>
        /\ Len(m_matched) = Cardinality(RetainedPositions)
        /\ \A n \in 1..Len(m_matched) : m_matched[n] = m_jobs[Nth(RetainedPositions, n)]

\* Include "engineer", exclude "intern": the intern, who matches include, is
\* dropped; no location constraint.
C7_Witness ==
    /\ m_pc = "done"
    /\ m_config = [include |-> Keywords(<< <<"e", "n", "g", "i", "n", "e", "e", "r">> >>),
                   exclude |-> Keywords(<< <<"i", "n", "t", "e", "r", "n">> >>),
                   locations_include |-> Missing]
    /\ m_jobs = <<JobIntern, JobSenior>>
    /\ m_matched = <<JobSenior>>

\* A location keyword found in the title and the team but not in the location
\* does not retain the job.
C7_WitnessLocationAlone ==
    /\ m_pc = "done"
    /\ m_config.locations_include = Keywords(<< <<"r", "e", "m", "o", "t", "e">> >>)
    /\ m_config.include = Missing /\ m_config.exclude = Missing
    /\ m_jobs = <<JobSales, JobSenior>>
    /\ m_matched = <<JobSenior>>

---------------------------------------------------------------------------
(* process_telegram_commands.py: the commands.                             *)

\* int | None: <<>> is None, <<n>> is the integer n.
None == <<>>
Some(n) == <<n>>

AshbyBase == <<"h", "t", "t", "p", "s", ":", "/", "/", "j", "o", "b", "s", ".", "a", "s", "h", "b", "y", "h", "q", ".", "c", "o", "m", "/">>

SlugChars ==
    Range(UpperCase) \cup Range(LowerCase)
    \cup {"0", "1", "2", "3", "4", "5", "6", "7", "8", "9", "-"}

\* parse_slug(ashby_url): the lower-cased slug, <<>> for None.  The pattern
\* is the base, one or more slug characters, any number of "/", the end.
parse_slug(ashby_url) ==
    LET url == Strip(ashby_url)
        slug == RStripSlash(SubSeq(url, Len(AshbyBase) + 1, Len(url)))
    IN  IF StartsWith(url, AshbyBase) /\ slug # <<>> /\ Range(slug) \subseteq SlugChars
        THEN Lower(slug) ELSE <<>>

\* load_companies(path): the rows with a company and a url, both stripped.
RECURSIVE load_companies(_)
load_companies(rows) ==
    IF rows = <<>> THEN <<>>
    ELSE LET company == Strip(Head(rows)[1])
             url == Strip(Head(rows)[2])
         IN  (IF company # <<>> /\ url # <<>> THEN << <<company, url>> >> ELSE <<>>)
             \o load_companies(Tail(rows))

\* save_companies(path, rows)
save_companies(rows) == rows

\* Put a row after the rows whose key is not greater than its own.
RECURSIVE InsertRow(_, _)
InsertRow(sorted, row) ==
    IF sorted = <<>> THEN <<row>>
    ELSE IF StrLess(Lower(row[1]), Lower(Head(sorted)[1])) THEN <<row>> \o sorted
    ELSE <<Head(sorted)>> \o InsertRow(Tail(sorted), row)

\* companies.sort(key=lambda row: row[0].lower()): a stable sort.
RECURSIVE SortCompanies(_)
SortCompanies(rows) ==
    IF rows = <<>> THEN <<>>
    ELSE InsertRow(SortCompanies(SubSeq(rows, 1, Len(rows) - 1)), rows[Len(rows)])

Reply(reply, rows) == [reply |-> reply, companies |-> rows, raised |-> FALSE]

\* handle_add(args): the reply and companies.csv afterwards.
handle_add(args, file) ==
    LET url == args[Len(args)]
        slug == parse_slug(url)
        name == Strip(JoinWith(<<" ">>, SubSeq(args, 1, Len(args) - 1)))
        company == IF Len(args) = 1 \/ name = <<>> THEN slug ELSE name
        companies == load_companies(file)
        tracked == \E i \in 1..Len(companies) : parse_slug(companies[i][2]) = slug
    IN  IF args = <<>> THEN Reply("usage_add", file)
        ELSE IF slug = <<>> THEN Reply("invalid_url", file)
        ELSE IF tracked THEN Reply("already_tracked", file)
        ELSE Reply("added",
                   save_companies(SortCompanies(Append(companies, <<company, AshbyBase \o slug>>))))

\* handle_remove(args)
handle_remove(args, file) ==
    LET needle == Lower(Strip(args[1]))
        companies == load_companies(file)
        Matches(row) == Lower(row[1]) = needle \/ Lower(parse_slug(row[2])) = needle
        Keeps(row) == ~Matches(row)
        kept == SelectSeq(companies, Keeps)
        removed == SelectSeq(companies, Matches)
    IN  IF Len(args) # 1 THEN Reply("usage_remove", file)
        ELSE IF removed = <<>> THEN Reply("no_match", file)
        ELSE Reply("removed", save_companies(kept))

\* What the environment and the workflow dispatch answer to /runall.
RunAllOutcomes == {"not_configured", "not_ok", "ok", "raises"}

\* handle_runall()
handle_runall(outcome, file) ==
    CASE outcome = "not_configured" -> Reply("runall_not_configured", file)
      [] outcome = "not_ok" -> Reply("runall_failed", file)
      [] outcome = "ok" -> Reply("run_requested", file)
      [] OTHER -> [reply |-> "", companies |-> file, raised |-> TRUE]

\* handle_command(text)
handle_command(text, file, outcome) ==
    LET tokens == SplitWords(text)
        command == Lower(tokens[1])
    IN  IF tokens = <<>> THEN Reply("empty_command", file)
        ELSE IF command = <<"/", "h", "e", "l", "p">> THEN Reply("help", file)
        ELSE IF command = <<"/", "l", "i", "s", "t">> THEN Reply("list", file)
        ELSE IF command = <<"/", "a", "d", "d">> THEN handle_add(Tail(tokens), file)
        ELSE IF command = <<"/", "r", "e", "m", "o", "v", "e">> THEN handle_remove(Tail(tokens), file)
        ELSE IF command = <<"/", "r", "u", "n", "a", "l", "l">> THEN handle_runall(outcome, file)
        ELSE Reply("unknown_command", file)

---------------------------------------------------------------------------
(* process_telegram_commands.py: main().                                   *)

MaxUpdates == 2

\* TELEGRAM_CHAT_ID
AuthorizedChatId == <<"4", "2">>

\* update.get("message"): not a dict, or its text and its chat id as text
\* (<<>> for a missing text, a missing chat or a missing id).
NoMessage == [is_dict |-> FALSE, text |-> <<>>, chat_id |-> <<>>]
Message(text, chat_id) == [is_dict |-> TRUE, text |-> text, chat_id |-> chat_id]

\* A blank text; a command from another chat; commands from the authorized chat.
MsgBlank == Message(<<" ", " ">>, <<"4", "2">>)
MsgOtherChat == Message(<<"/", "r", "e", "m", "o", "v", "e", " ", "a", "c", "m", "e">>, <<"7">>)
MsgAdd == Message(<<"/", "a", "d", "d", " ", "A", "b", " ", "h", "t", "t", "p", "s", ":", "/", "/", "j", "o", "b", "s", ".", "a", "s", "h", "b", "y", "h", "q", ".", "c", "o", "m", "/", "R", "o", "g", "o", "/">>, <<"4", "2">>)
MsgRemove == Message(<<" ", "/", "R", "e", "m", "o", "v", "e", " ", "R", "O", "G", "O", " ">>, <<" ", "4", "2">>)
MsgRunAll == Message(<<"/", "r", "u", "n", "a", "l", "l">>, <<"4", "2">>)

\* update.get("update_id") is missing (None) or an integer.
Update(update_id, message) == [update_id |-> update_id, message |-> message]

Updates ==
    { Update(Some(1), NoMessage), Update(Some(2), NoMessage),
      Update(Some(2), MsgBlank), Update(Some(1), MsgOtherChat),
      Update(None, MsgAdd), Update(Some(1), MsgAdd), Update(Some(2), MsgAdd),
      Update(Some(2), MsgRemove), Update(Some(1), MsgRunAll) }

\* What get_updates can return: a list of updates, in any order.
UpdateBatches == UNION {[1..n -> Updates] : n \in 0..MaxUpdates}

\* _coerce_int(value)
coerce_int(value) == value

\* load_offset(path): 0 when there is no file.
load_offset(file) == IF file = None THEN 0 ELSE file[1]

\* save_offset(path, offset)
save_offset(offset) == Some(offset)

\* Mutant: next_offset follows the last update instead of the greatest.
NextOffsetLast(next_offset, update) ==
    LET update_id == coerce_int(update.update_id)
    IN  IF update_id # None THEN update_id[1] + 1 ELSE next_offset

\* main, lines 55-57: next_offset after one more update.
NextOffset(next_offset, update) ==
    LET update_id == coerce_int(update.update_id)
    IN  IF update_id # None THEN Max(next_offset, update_id[1] + 1) ELSE next_offset

\* main, lines 59-71: the update is passed over without a reply.
Skipped(update) ==
    \/ ~update.message.is_dict
    \/ Strip(update.message.text) = <<>>
    \/ Strip(update.message.chat_id) # AuthorizedChatId

Companies0 == << <<<<"A", "c", "m", "e">>, <<"h", "t", "t", "p", "s", ":", "/", "/", "j", "o", "b", "s", ".", "a", "s", "h", "b", "y", "h", "q", ".", "c", "o", "m", "/", "a", "c", "m", "e">>>> >>

TgIdle ==
    /\ t_offset_file = None
    /\ t_companies = <<>>
    /\ t_offset = 0
    /\ t_next_offset = 0
    /\ t_updates = <<>>
    /\ t_i = 1
    /\ t_sent = 0
    /\ t_error = ""
    /\ t_companies_at_start = <<>>
    /\ t_pc = "off"

\* Before the first run: no offset file, one tracked board.
TgInit ==
    /\ t_offset_file = None
    /\ t_companies = Companies0
    /\ t_offset = 0
    /\ t_next_offset = 0
    /\ t_updates = <<>>
    /\ t_i = 1
    /\ t_sent = 0
    /\ t_error = ""
    /\ t_companies_at_start = Companies0
    /\ t_pc = "idle"

\* A run of main() begins when no run is under way.
RunBegins(pc, error, offset, updates) ==
    /\ t_pc = "idle"
    /\ t_pc' = pc
    /\ t_error' = error
    /\ t_offset' = offset
    /\ t_next_offset' = offset
    /\ t_updates' = updates
    /\ t_i' = 1
    /\ t_sent' = 0
    /\ t_companies_at_start' = t_companies
    /\ UNCHANGED <<t_offset_file, t_companies>>
    /\ UNCHANGED nonTgVars

\* main, lines 45-48: a token or the chat id is not set.
MainNotConfigured == RunBegins("raised", "RuntimeError", 0, <<>>)

\* main, lines 50-51: get_updates raises (HTTP error, or a non-ok payload).
GetUpdatesRaises ==
    \E error \in {"HTTPError", "RuntimeError"} :
        RunBegins("raised", error, load_offset(t_offset_file), <<>>)

\* main, lines 50-52: the offset is loaded and the batch fetched.
GetUpdates ==
    \E updates \in UpdateBatches :
        RunBegins("loop", "", load_offset(t_offset_file), updates)

\* One iteration that ends in continue.
SkipUpdate ==
    /\ t_pc = "loop"
    /\ t_i <= Len(t_updates)
    /\ Skipped(t_updates[t_i])
    /\ t_next_offset' = NextOffset(t_next_offset, t_updates[t_i])
    /\ t_i' = t_i + 1
    /\ UNCHANGED <<t_offset_file, t_companies, t_offset, t_updates, t_sent, t_error,
                   t_companies_at_start, t_pc>>
    /\ UNCHANGED nonTgVars

\* One iteration that handles the command and sends the reply.
ReplyToUpdate ==
    /\ t_pc = "loop"
    /\ t_i <= Len(t_updates)
    /\ ~Skipped(t_updates[t_i])
    /\ \E outcome \in RunAllOutcomes \ {"raises"} :
          LET r == handle_command(Strip(t_updates[t_i].message.text), t_companies, outcome)
          IN  t_companies' = r.companies
    /\ t_next_offset' = NextOffset(t_next_offset, t_updates[t_i])
    /\ t_sent' = t_sent + 1
    /\ t_i' = t_i + 1
    /\ UNCHANGED <<t_offset_file, t_offset, t_updates, t_error, t_companies_at_start, t_pc>>
    /\ UNCHANGED nonTgVars

\* One iteration in which handle_command raises (the workflow dispatch fails).
CommandRaises ==
    /\ t_pc = "loop"
    /\ t_i <= Len(t_updates)
    /\ ~Skipped(t_updates[t_i])
    /\ handle_command(Strip(t_updates[t_i].message.text), t_companies, "raises").raised
    /\ t_next_offset' = NextOffset(t_next_offset, t_updates[t_i])
    /\ t_error' = "RequestException"
    /\ t_pc' = "raised"
    /\ UNCHANGED <<t_offset_file, t_companies, t_offset, t_updates, t_i, t_sent,
                   t_companies_at_start>>
    /\ UNCHANGED nonTgVars

\* One iteration in which send_message raises: the command has been handled.
SendRaises ==
    /\ t_pc = "loop"
    /\ t_i <= Len(t_updates)
    /\ ~Skipped(t_updates[t_i])
    /\ \E outcome \in RunAllOutcomes \ {"raises"} :
          LET r == handle_command(Strip(t_updates[t_i].message.text), t_companies, outcome)
          IN  t_companies' = r.companies
    /\ t_next_offset' = NextOffset(t_next_offset, t_updates[t_i])
    /\ t_error' = "HTTPError sendMessage"
    /\ t_pc' = "raised"
    /\ UNCHANGED <<t_offset_file, t_offset, t_updates, t_i, t_sent, t_companies_at_start>>
    /\ UNCHANGED nonTgVars

\* main, lines 76-77: after the loop the offset is saved.
SaveOffset ==
    /\ t_pc = "loop"
    /\ t_i > Len(t_updates)
    /\ t_offset_file' = save_offset(t_next_offset)
    /\ t_pc' = "done"
    /\ UNCHANGED <<t_companies, t_offset, t_next_offset, t_updates, t_i, t_sent, t_error,
                   t_companies_at_start>>
    /\ UNCHANGED nonTgVars

\* The process ends, by return or by the exception; only the files remain.
MainExits ==
    /\ t_pc \in {"done", "raised"}
    /\ t_pc' = "idle"
    /\ t_error' = ""
    /\ t_offset' = 0
    /\ t_next_offset' = 0
    /\ t_updates' = <<>>
    /\ t_i' = 1
    /\ t_sent' = 0
    /\ t_companies_at_start' = t_companies
    /\ UNCHANGED <<t_offset_file, t_companies>>
    /\ UNCHANGED nonTgVars

TgNext ==
    \/ MainNotConfigured
    \/ GetUpdatesRaises
    \/ GetUpdates
    \/ SkipUpdate
    \/ ReplyToUpdate
    \/ CommandRaises
    \/ SendRaises
    \/ SaveOffset
    \/ MainExits

\* The offset a file stands for: 0 when there is no file.
OffsetOf(file) == IF file = None THEN 0 ELSE file[1]

\* update_id + 1 for the updates of the batch that carry an update_id.
FetchedNext ==
    {t_updates[i].update_id[1] + 1 :
        i \in {j \in 1..Len(t_updates) : t_updates[j].update_id # None}}

Greatest(S) == CHOOSE m \in S : \A x \in S : x <= m

\* Positions of the batch with a non-blank text from the authorized chat.
Answered ==
    {i \in 1..Len(t_updates) :
        /\ t_updates[i].message.is_dict
        /\ Strip(t_updates[i].message.text) # <<>>
        /\ Strip(t_updates[i].message.chat_id) = AuthorizedChatId}

\* companies.csv after the commands of the first k updates of the batch.
RECURSIVE RegistryAfter(_)
RegistryAfter(k) ==
    IF k = 0 THEN t_companies_at_start
    ELSE IF k \in Answered
    THEN handle_command(Strip(t_updates[k].message.text), RegistryAfter(k - 1), "ok").companies
    ELSE RegistryAfter(k - 1)

\* C11: over any sequence of runs of main() the persisted offset never
\* decreases; a run that completes leaves it equal to the greatest of the
\* loaded offset and update_id + 1 over the fetched updates, skipped ones
\* included; the offset file is written only once every update of the batch has
\* been handled and answered; a run that fails while sending a reply leaves the
\* offset as it was, with the registry changes of the commands handled so far
\* already in companies.csv.
C11_OffsetSavedAfterBatch ==
    /\ [][OffsetOf(t_offset_file) <= OffsetOf(t_offset_file')]_vars
    /\ [](t_pc = "loop" => t_offset = OffsetOf(t_offset_file))
    /\ [](t_pc = "done" =>
            t_offset_file = Some(Greatest({t_offset} \cup FetchedNext)))
    /\ [][t_offset_file' # t_offset_file =>
            /\ t_pc = "loop" /\ t_pc' = "done"
            /\ t_i = Len(t_updates) + 1
            /\ t_sent = Cardinality(Answered)]_vars
    /\ [][t_pc' = "raised" => t_offset_file' = t_offset_file]_vars
    /\ []((t_pc = "raised" /\ t_error = "HTTPError sendMessage") =>
            /\ OffsetOf(t_offset_file) = t_offset
            /\ t_i \in Answered
            /\ t_companies = RegistryAfter(t_i))

\* A run after one that saved an offset: the first command added a board, the
\* reply to the second update could not be sent; the offset file is as it was
\* although the batch held a newer update, and the board is in companies.csv.
C11_Witness ==
    /\ t_pc = "raised"
    /\ t_error = "HTTPError sendMessage"
    /\ t_i = 2
    /\ t_sent = 1
    /\ t_offset_file = Some(2)
    /\ t_offset = 2
    /\ \E n \in FetchedNext : n > 2
    /\ Len(t_companies) = Len(t_companies_at_start) + 1

\* A completed run whose greatest update_id came with a skipped update, and
\* which held an update older than the loaded offset.
C11_WitnessSkipped ==
    /\ t_pc = "done"
    /\ t_offset = 2
    /\ t_offset_file = Some(3)
    /\ \E i \in 1..Len(t_updates) :
          i \notin Answered /\ t_updates[i].update_id = Some(2)
    /\ \E i \in Answered : t_updates[i].update_id = Some(1)

---------------------------------------------------------------------------
(* Specifications: one per component; the other components stay idle.      *)

DifferIdle == DifferInit

LocIdle ==
    /\ l_payload = Null
    /\ l_found = [ret |-> "none", path |-> 0, postings |-> <<>>]
    /\ l_pc = "idle"

FetchIdle ==
    /\ f_page = [status |-> "none", script |-> "none", payload |-> Null, url |-> <<>>]
    /\ f_postings = <<>>
    /\ f_result = Returned(<<>>)
    /\ f_pc = "idle"

MatchIdle ==
    /\ m_jobs = <<>>
    /\ m_config = [include |-> Missing, exclude |-> Missing, locations_include |-> Missing]
    /\ m_matched = <<>>
    /\ m_pc = "idle"

InitDiffer == DifferInit /\ ChunkIdle /\ NormIdle /\ LocIdle /\ FetchIdle /\ MatchIdle /\ TgIdle
SpecDiffer == InitDiffer /\ [][DifferNext]_vars

InitChunk == ChunkInit /\ DifferIdle /\ NormIdle /\ LocIdle /\ FetchIdle /\ MatchIdle /\ TgIdle
SpecChunk == InitChunk /\ [][ChunkText]_vars

InitNormalize == NormInit /\ DifferIdle /\ ChunkIdle /\ LocIdle /\ FetchIdle /\ MatchIdle /\ TgIdle
SpecNormalize == InitNormalize /\ [][NormalizeJob]_vars

InitLocate == LocInit /\ DifferIdle /\ ChunkIdle /\ NormIdle /\ FetchIdle /\ MatchIdle /\ TgIdle
SpecLocate == InitLocate /\ [][FindJobPostings]_vars

InitFetch == FetchInit /\ DifferIdle /\ ChunkIdle /\ NormIdle /\ LocIdle /\ MatchIdle /\ TgIdle
SpecFetch == InitFetch /\ [][FetchJobs]_vars

InitMatch == MatchInit /\ DifferIdle /\ ChunkIdle /\ NormIdle /\ LocIdle /\ FetchIdle /\ TgIdle
SpecMatch == InitMatch /\ [][FilterJobs]_vars

InitTelegram == TgInit /\ DifferIdle /\ ChunkIdle /\ NormIdle /\ LocIdle /\ FetchIdle /\ MatchIdle
SpecTelegram == InitTelegram /\ [][TgNext]_vars

===========================================================================
